---- MODULE Spec2Model ----
(***************************************************************************)
(* Model of the CARLA -> KUKSA telemetry bridge                            *)
(* (src/container_scripts/carla_vss_bridge.py, class CarlaVSSBridge).      *)
(*                                                                         *)
(* The bridge is one thread of control.  Its position is `pc`; the only    *)
(* asynchronous program code is the signal handler, which may run between  *)
(* any two steps.  The simulator scene and the outcome of every remote     *)
(* call are chosen by the environment.                                     *)
(***************************************************************************)
EXTENDS Integers, Sequences, FiniteSets

(* ---------------------------- bounds ----------------------------------- *)
\* actors the simulator may hold: ids 1..MaxActor
MaxActor == 3
\* cap of the bookkeeping counters that count publish calls
MaxCount == 2

\* actors of the scenes the selection is tried on: ids 1..MaxSelActor
MaxSelActor == 5

\* speeds the estimator is tried on: 0.4 km/h steps up to this index
MaxSpeedIdx == 450

\* velocity components the speed computation is tried on: -MaxVel..MaxVel
MaxVel == 3

(* ---------------------------- values ----------------------------------- *)
NoId == 0                      \* vehicle_id = None / _vehicle = None
NoRole == "none"               \* vehicle_role = None or ""
None == "None"                 \* _kuksa_client = None
Client == "VSSClient"          \* _kuksa_client holds a client object

ActorIds == 1..MaxActor
\* every third actor is not a vehicle (a sensor, a walker ...): it is
\* returned by get_actor(id) but not by get_actors().filter('vehicle.*')
IsVehicle(a) == a % 3 # 0
\* role_name attribute of an actor
RoleOf(a) == IF a % 2 = 0 THEN "hero" ELSE "npc"

Roles == {NoRole, "hero"}

VARIABLES
    vehicle_id,      \* configuration: explicit actor id or NoId
    vehicle_role,    \* configuration: role label or NoRole
    scene,           \* environment: actors alive in the simulator (is_alive)
    stable,          \* environment: TRUE once both endpoints stay healthy
    pc,              \* position of the bridge's thread
    shutdown,        \* self._shutdown
    world,           \* self._world is set
    vehicle,         \* self._vehicle (actor id or NoId)
    kuksa_client,    \* self._kuksa_client (None or Client)
    sessions,        \* Sink sessions opened by connect() and not disconnected
    exit_code,       \* return value of main(); -1 while running
    exit_reason,     \* why start() returned or raised
    trace,           \* calls made so far in the current tick (or phase)
    prev_trace,      \* calls made in the previous tick
    loop_entered,    \* the while loop of _loop was reached
    start_sink,      \* outcome of the start-up Sink connection attempt
    last_probe,      \* result of the last is_alive probe of the held handle
    sig_pc,          \* position of the thread when the signal arrived
    post_pubs,       \* set_current_values calls made after the signal
    speed,           \* the sample held by the locals speed and rpm of _loop
    handed,          \* times that sample was passed to set_current_values
    calc             \* a function under test: its arguments and its result

vars == <<vehicle_id, vehicle_role, scene, stable, pc, shutdown, world,
          vehicle, kuksa_client, sessions, exit_code, exit_reason, trace,
          prev_trace, loop_entered, start_sink, last_probe, sig_pc,
          post_pubs, speed, handed, calc>>

cfg == <<vehicle_id, vehicle_role, calc>>
hist_sig == <<sig_pc, post_pubs>>
sample == <<speed, handed>>

(* ---------------------------- helpers ---------------------------------- *)
Has(s, e) == \E i \in 1..Len(s) : s[i] = e
Pos(s, e) == CHOOSE i \in 1..Len(s) : s[i] = e /\ \A j \in 1..(i-1) : s[j] # e
Before(s, a, b) == Has(s, a) /\ Has(s, b) /\ Pos(s, a) < Pos(s, b)
Min(S) == CHOOSE x \in S : \A y \in S : x <= y
Inc(n) == IF n < MaxCount THEN n + 1 ELSE n

\* outcomes of a call to the simulator: it returns, or raises one of the
\* three exception classes _loop distinguishes
SourceOutcomes == {"ok", "RuntimeError", "TimeoutError", "Exception"}
\* outcomes of a call to the KUKSA client: it returns or raises
SinkOutcomes == {"ok", "fail"}
\* after the endpoints became healthy no remote call fails
Allowed(o) == o = "ok" \/ ~stable

(* ------------------------- _ensure_vehicle ----------------------------- *)
\* world.get_actors().filter('vehicle.*'), in enumeration order
Vehicles(sc) == {a \in sc : IsVehicle(a)}

\* mutant of Select: an absent explicit id falls through to the role scan
\* and to the first vehicle
Select_IdFallback(sc, id, role) ==
    LET actors == Vehicles(sc)
        byRole == {a \in actors : RoleOf(a) = role}
        selected == IF id # NoId /\ id \in sc THEN id
                    ELSE IF role # NoRole /\ byRole # {}
                         THEN Min(byRole)
                         ELSE NoId
    IN  IF selected = NoId /\ actors # {} THEN Min(actors)
        ELSE selected

\* mutant of Select: the role scan does not stop at the first match
Select_LastMatch(sc, id, role) ==
    LET actors == Vehicles(sc)
        byRole == {a \in actors : RoleOf(a) = role}
        selected == IF id # NoId
                    THEN (IF id \in sc THEN id ELSE NoId)
                    ELSE IF role # NoRole /\ byRole # {}
                         THEN CHOOSE x \in byRole : \A y \in byRole : y <= x
                         ELSE NoId
    IN  IF id # NoId /\ selected = NoId THEN NoId
        ELSE IF selected = NoId /\ actors # {} THEN Min(actors)
        ELSE selected

\* mutant of Select: the role scan runs before the explicit id is looked up
Select_RoleFirst(sc, id, role) ==
    LET actors == Vehicles(sc)
        byRole == {a \in actors : RoleOf(a) = role}
        selected == IF role # NoRole /\ byRole # {} THEN Min(byRole)
                    ELSE IF id # NoId
                         THEN (IF id \in sc THEN id ELSE NoId)
                         ELSE NoId
    IN  IF id # NoId /\ selected = NoId THEN NoId
        ELSE IF selected = NoId /\ actors # {} THEN Min(actors)
        ELSE selected

\* the selection of _ensure_vehicle: the actor selected, or NoId when the
\* function raises RuntimeError
Select(sc, id, role) ==
    LET actors == Vehicles(sc)
        byRole == {a \in actors : RoleOf(a) = role}
        selected == IF id # NoId
                    THEN (IF id \in sc THEN id ELSE NoId)
                    ELSE IF role # NoRole /\ byRole # {}
                         THEN Min(byRole)
                         ELSE NoId
    IN  IF id # NoId /\ selected = NoId THEN NoId
        ELSE IF selected = NoId /\ actors # {} THEN Min(actors)
        ELSE selected

\* mutant of EnsureVehicle: a handle once held is kept without asking the
\* simulator again
EnsureVehicle_Cached(w, call) ==
    IF ~w THEN [exc |-> "RuntimeError", veh |-> vehicle]
    ELSE IF vehicle # NoId THEN [exc |-> "none", veh |-> vehicle]
    ELSE IF call # "ok" THEN [exc |-> call, veh |-> vehicle]
    ELSE LET sel == Select(scene, vehicle_id, vehicle_role)
         IN  IF sel = NoId THEN [exc |-> "RuntimeError", veh |-> vehicle]
             ELSE [exc |-> "none", veh |-> sel]

\* mutant of EnsureVehicle: a failed acquisition clears the held handle
EnsureVehicle_ClearsOnFail(w, call) ==
    IF ~w THEN [exc |-> "RuntimeError", veh |-> NoId]
    ELSE IF call # "ok" THEN [exc |-> call, veh |-> NoId]
    ELSE LET sel == Select(scene, vehicle_id, vehicle_role)
         IN  IF sel = NoId THEN [exc |-> "RuntimeError", veh |-> NoId]
             ELSE [exc |-> "none", veh |-> sel]

\* _ensure_vehicle as a whole: `w` is self._world, `call` the outcome of
\* its remote calls (get_actors, get_actor).  Result: the exception raised
\* ("none" if it returns) and the value of _vehicle afterwards.
EnsureVehicle(w, call) ==
    IF ~w THEN [exc |-> "RuntimeError", veh |-> vehicle]
    ELSE IF call # "ok" THEN [exc |-> call, veh |-> vehicle]
    ELSE LET sel == Select(scene, vehicle_id, vehicle_role)
         IN  IF sel = NoId THEN [exc |-> "RuntimeError", veh |-> vehicle]
             ELSE [exc |-> "none", veh |-> sel]

\* mutant of ConnectCarla: a failure of the connection is logged and
\* swallowed instead of being raised
ConnectCarla_Swallow(gw, call) ==
    IF gw # "ok" THEN [exc |-> "none", veh |-> vehicle, wld |-> world]
    ELSE LET r == EnsureVehicle(TRUE, call)
         IN  [exc |-> "none", veh |-> r.veh, wld |-> TRUE]

\* mutant of ConnectCarla: the world is fetched but the target is not
\* acquired on it
ConnectCarla_NoAcquire(gw, call) ==
    IF gw # "ok" THEN [exc |-> gw, veh |-> vehicle, wld |-> world]
    ELSE [exc |-> "none", veh |-> vehicle, wld |-> TRUE]

\* _connect_carla as a whole: Client(), set_timeout(), get_world() with
\* outcome `gw`, then _ensure_vehicle().  Result as for EnsureVehicle, with
\* the value of _world afterwards.
ConnectCarla(gw, call) ==
    IF gw # "ok" THEN [exc |-> gw, veh |-> vehicle, wld |-> world]
    ELSE LET r == EnsureVehicle(TRUE, call)
         IN  [exc |-> r.exc, veh |-> r.veh, wld |-> TRUE]

\* events a _connect_carla call adds to the trace
ConnectCarlaEvents(gw, r) ==
    IF gw # "ok" THEN <<"get_world_fail">>
    ELSE IF r.exc = "none" THEN <<"get_world_ok", "acquire_ok">>
    ELSE <<"get_world_ok", "acquire_fail">>

\* no function is under test while the bridge runs
Idle == [fn |-> "none"]

(* ---------------------------- Init ------------------------------------- *)
\* state after CarlaVSSBridge.__init__: main() is about to call start()
Init ==
    /\ vehicle_id \in {NoId} \cup ActorIds
    /\ vehicle_role \in Roles
    /\ scene \in SUBSET ActorIds
    /\ stable = FALSE
    /\ pc = "setup"
    /\ shutdown = FALSE
    /\ world = FALSE
    /\ vehicle = NoId
    /\ kuksa_client = None
    /\ sessions = 0
    /\ exit_code = -1
    /\ exit_reason = "running"
    /\ trace = <<>>
    /\ prev_trace = <<>>
    /\ loop_entered = FALSE
    /\ start_sink = "none"
    /\ last_probe = "unknown"
    /\ sig_pc = "none"
    /\ post_pubs = 0
    /\ speed = "unset"
    /\ handed = 0
    /\ calc = Idle

\* all variables of the bridge; a function under test leaves them alone
bridge_vars == <<vehicle_id, vehicle_role, scene, stable, pc, shutdown,
                 world, vehicle, kuksa_client, sessions, exit_code,
                 exit_reason, trace, prev_trace, loop_entered, start_sink,
                 last_probe, sig_pc, post_pubs, speed, handed>>

\* the bridge as constructed with the default selection and an empty scene
Parked ==
    /\ vehicle_id = NoId /\ vehicle_role = "hero" /\ scene = {}
    /\ stable = FALSE /\ pc = "setup" /\ shutdown = FALSE
    /\ world = FALSE /\ vehicle = NoId /\ kuksa_client = None
    /\ sessions = 0 /\ exit_code = -1 /\ exit_reason = "running"
    /\ trace = <<>> /\ prev_trace = <<>> /\ loop_entered = FALSE
    /\ start_sink = "none" /\ last_probe = "unknown" /\ sig_pc = "none"
    /\ post_pubs = 0 /\ speed = "unset" /\ handed = 0

(* ----------------------- environment actions --------------------------- *)
\* the function of the bridge the thread is in at position p:
\* _setup_signal_handlers has two positions, _publish has two
Where(p) ==
    IF p = "setup_term" THEN "setup"
    ELSE IF p = "publish_sent" THEN "publish"
    ELSE p

\* mutant of StopHandler: the handler also drops the Sink client
StopHandler_DropsSink ==
    /\ pc \notin {"setup", "exited"}
    /\ ~shutdown
    /\ shutdown' = TRUE
    /\ sig_pc' = Where(pc)
    /\ kuksa_client' = None
    /\ UNCHANGED <<cfg, sample, scene, stable, pc, world, vehicle,
                   sessions, exit_code, exit_reason, trace, prev_trace,
                   loop_entered, start_sink, last_probe, post_pubs>>

\* _stop_handler: SIGINT delivered once line 89 has run, or SIGTERM
\* delivered once line 90 has run (between the two lines only SIGINT)
StopHandler ==
    /\ pc \notin {"setup", "exited"}
    /\ ~shutdown
    /\ shutdown' = TRUE
    /\ sig_pc' = Where(pc)
    /\ UNCHANGED <<cfg, sample, scene, stable, pc, world, vehicle, kuksa_client,
                   sessions, exit_code, exit_reason, trace, prev_trace,
                   loop_entered, start_sink, last_probe, post_pubs>>

\* an actor is spawned in the simulator
Spawn ==
    /\ pc # "exited" /\ ~stable
    /\ \E a \in ActorIds \ scene : scene' = scene \cup {a}
    /\ UNCHANGED <<cfg, sample, stable, pc, shutdown, world, vehicle, kuksa_client,
                   sessions, exit_code, exit_reason, trace, prev_trace,
                   loop_entered, start_sink, last_probe, hist_sig>>

\* an actor is destroyed in the simulator
Destroy ==
    /\ pc # "exited" /\ ~stable
    /\ \E a \in scene : scene' = scene \ {a}
    /\ UNCHANGED <<cfg, sample, stable, pc, shutdown, world, vehicle, kuksa_client,
                   sessions, exit_code, exit_reason, trace, prev_trace,
                   loop_entered, start_sink, last_probe, hist_sig>>

\* from now on a selectable vehicle stays alive and no remote call fails
Stabilise ==
    /\ ~stable
    /\ Select(scene, vehicle_id, vehicle_role) # NoId
    /\ stable' = TRUE
    /\ UNCHANGED <<cfg, sample, scene, pc, shutdown, world, vehicle, kuksa_client,
                   sessions, exit_code, exit_reason, trace, prev_trace,
                   loop_entered, start_sink, last_probe, hist_sig>>

(* ------------------------- bridge actions ------------------------------ *)
\* main(): bridge.start() returned (exc = "none") or raised; a
\* KeyboardInterrupt is logged and main() returns 0 like a normal return
MainReturn(exc) ==
    IF exc = "none" \/ exc = "KeyboardInterrupt" THEN 0 ELSE 1

\* start() is left by an exception: the process ends
Crash(reason, exc) ==
    /\ pc' = "exited"
    /\ exit_code' = MainReturn(exc)
    /\ exit_reason' = reason

\* mutant of ConnectKuksa: a failed connection is tried again at once
ConnectKuksa_Retry(c) ==
    IF c = "ok"
    THEN [client |-> Client, opened |-> 1, exc |-> "none",
          ev |-> <<"sink_connect_ok">>]
    ELSE [client |-> Client, opened |-> 1, exc |-> "none",
          ev |-> <<"sink_connect_fail", "sink_connect_ok">>]

\* mutant of ConnectKuksa: the connection failure is not caught
ConnectKuksa_Raises(c) ==
    IF c = "ok"
    THEN [client |-> Client, opened |-> 1, exc |-> "none",
          ev |-> <<"sink_connect_ok">>]
    ELSE [client |-> None, opened |-> 0, exc |-> "Exception",
          ev |-> <<"sink_connect_fail">>]

\* _connect_kuksa: `c` is the outcome of VSSClient(...).connect().  Result:
\* the value of _kuksa_client afterwards, the sessions it opened, the
\* exception it lets out and the trace events.
ConnectKuksa(c) ==
    IF c = "ok"
    THEN [client |-> Client, opened |-> 1, exc |-> "none",
          ev |-> <<"sink_connect_ok">>]
    ELSE [client |-> None, opened |-> 0, exc |-> "none",
          ev |-> <<"sink_connect_fail">>]

\* _setup_signal_handlers: signal.signal(SIGINT, _stop_handler)
InstallSigint ==
    /\ pc = "setup"
    /\ pc' = "setup_term"
    /\ UNCHANGED <<cfg, sample, scene, stable, shutdown, world, vehicle,
                   kuksa_client, sessions, exit_code, exit_reason, trace,
                   prev_trace, loop_entered, start_sink, last_probe,
                   hist_sig>>

\* _setup_signal_handlers: signal.signal(SIGTERM, _stop_handler), then
\* start() goes on to _connect_carla()
InstallSigterm ==
    /\ pc = "setup_term"
    /\ pc' = "connect_carla"
    /\ UNCHANGED <<cfg, sample, scene, stable, shutdown, world, vehicle,
                   kuksa_client, sessions, exit_code, exit_reason, trace,
                   prev_trace, loop_entered, start_sink, last_probe,
                   hist_sig>>

\* SIGINT delivered before its handler is installed: the default handler
\* raises KeyboardInterrupt in start(), which main() catches
Interrupt ==
    /\ pc = "setup"
    /\ Crash("interrupted", "KeyboardInterrupt")
    /\ UNCHANGED <<cfg, sample, scene, stable, shutdown, world, vehicle,
                   kuksa_client, sessions, trace, prev_trace, loop_entered,
                   start_sink, last_probe, hist_sig>>

\* SIGTERM delivered before its handler is installed: the default
\* disposition ends the process, main() never returns and the status of
\* the process is -15
Terminate ==
    /\ pc \in {"setup", "setup_term"}
    /\ pc' = "exited"
    /\ exit_code' = -15
    /\ exit_reason' = "killed"
    /\ UNCHANGED <<cfg, sample, scene, stable, shutdown, world, vehicle,
                   kuksa_client, sessions, trace, prev_trace, loop_entered,
                   start_sink, last_probe, hist_sig>>

\* start(): self._connect_carla()
ConnectCarlaAtStart ==
    /\ pc = "connect_carla"
    /\ \E gw \in SourceOutcomes, call \in SourceOutcomes :
        /\ Allowed(gw) /\ Allowed(call)
        /\ LET r == ConnectCarla(gw, call)
           IN  /\ vehicle' = r.veh
               /\ world' = r.wld
               /\ trace' = trace \o ConnectCarlaEvents(gw, r)
               /\ IF r.exc = "none"
                  THEN /\ pc' = "connect_kuksa"
                       /\ UNCHANGED <<exit_code, exit_reason>>
                  ELSE Crash("startup_failure", r.exc)
    /\ UNCHANGED <<cfg, sample, scene, stable, shutdown, kuksa_client, sessions,
                   prev_trace, loop_entered, start_sink, last_probe,
                   hist_sig>>

\* start(): self._connect_kuksa(), then self._loop() is called
ConnectKuksaAtStart ==
    /\ pc = "connect_kuksa"
    /\ \E c \in SinkOutcomes :
        /\ Allowed(c)
        /\ LET k == ConnectKuksa(c)
           IN  /\ kuksa_client' = k.client
               /\ sessions' = sessions + k.opened
               /\ trace' = trace \o k.ev
               /\ start_sink' = c
               /\ IF k.exc = "none"
                  THEN /\ pc' = "loop_head"
                       /\ UNCHANGED <<exit_code, exit_reason>>
                  ELSE Crash("startup_failure", k.exc)
    /\ UNCHANGED <<cfg, sample, scene, stable, shutdown, world, vehicle, prev_trace,
                   loop_entered, last_probe, hist_sig>>

\* mutant of LoopTest: the flag is not consulted
LoopTest_Always(sd) == TRUE

\* _loop: the condition of `while not self._shutdown`
LoopTest(sd) == ~sd

\* _loop: the while test; a new tick begins or _teardown is reached
LoopHead ==
    /\ pc = "loop_head"
    /\ loop_entered' = TRUE
    /\ prev_trace' = IF loop_entered THEN trace ELSE <<>>
    /\ trace' = <<>>
    /\ pc' = IF LoopTest(shutdown) THEN "probe" ELSE "teardown"
    /\ speed' = IF speed = "tick" THEN "old" ELSE speed
    /\ handed' = handed
    /\ UNCHANGED <<cfg, scene, stable, shutdown, world, vehicle,
                   kuksa_client, sessions, exit_code, exit_reason,
                   start_sink, last_probe, hist_sig>>

\* mutant of AfterException: the error is swallowed where it occurs and
\* the tick goes on to publish what the locals hold
AfterException_Continue(exc) == "publish"

\* _loop: where an exception raised inside the try block leads.
\* RuntimeError and Exception are logged and the tick ends; TimeoutError
\* runs the handler that reconnects to CARLA.
AfterException(exc) ==
    IF exc = "TimeoutError" THEN "timeout" ELSE "sleep"

\* mutant of NeedsAcquire: the handle acquired at start-up is kept for good
NeedsAcquire_Never(veh, alive) == FALSE

\* mutant of NeedsAcquire: the liveness of the held handle is not consulted
NeedsAcquire_NoProbe(veh, alive) == veh = NoId

\* _loop: `if not self._vehicle or not self._vehicle.is_alive`
NeedsAcquire(veh, alive) == veh = NoId \/ ~alive

\* _loop: the test `not self._vehicle or not self._vehicle.is_alive`,
\* which reads is_alive of the held handle
ProbeVehicle ==
    /\ pc = "probe"
    /\ LET alive == vehicle \in scene
           probed == IF vehicle = NoId THEN <<>>
                     ELSE IF alive THEN <<"probe_alive">>
                     ELSE <<"probe_dead">>
           result == IF vehicle = NoId THEN last_probe
                     ELSE IF alive THEN "alive" ELSE "dead"
       IN  /\ last_probe' = result
           /\ trace' = trace \o probed
           /\ pc' = IF NeedsAcquire(vehicle, alive) THEN "acquire"
                    ELSE "read"
    /\ UNCHANGED <<cfg, sample, scene, stable, shutdown, world, vehicle,
                   kuksa_client, sessions, exit_code, exit_reason,
                   prev_trace, loop_entered, start_sink, hist_sig>>

\* _loop: the self._ensure_vehicle() that follows a failed test; it asks
\* the simulator after the probe, so the scene may have changed in between.
\* Its result depends on one answer of the simulator only: get_actor(id)
\* when an id is configured, get_actors() otherwise.
AcquireVehicle ==
    /\ pc = "acquire"
    /\ \E call \in SourceOutcomes :
        /\ Allowed(call)
        /\ LET r == EnsureVehicle(world, call)
           IN  /\ vehicle' = r.veh
               /\ IF r.exc = "none"
                  THEN /\ last_probe' = "unknown"
                       /\ trace' = Append(trace, "acquire_ok")
                       /\ pc' = "read"
                  ELSE /\ UNCHANGED last_probe
                       /\ trace' = Append(trace, "acquire_fail")
                       /\ pc' = AfterException(r.exc)
    /\ UNCHANGED <<cfg, sample, scene, stable, shutdown, world, kuksa_client,
                   sessions, exit_code, exit_reason, prev_trace,
                   loop_entered, start_sink, hist_sig>>

\* _compute_speed_kmh: `if not self._vehicle` is false; otherwise the
\* function returns the placeholder 0.0 without asking the simulator
HasHandle(veh) == veh # NoId

\* _loop: speed = self._compute_speed_kmh(); rpm = self._estimate_rpm(speed).
\* get_velocity() on a destroyed actor raises or answers from the last
\* snapshot the client holds.
ReadVelocity ==
    /\ pc = "read"
    /\ \E v \in SourceOutcomes :
        /\ Allowed(v) \/ (vehicle \notin scene /\ v = "RuntimeError")
        /\ IF ~HasHandle(vehicle)
           THEN /\ trace' = Append(trace, "read_placeholder")
                /\ speed' = "placeholder"
                /\ handed' = 0
                /\ pc' = "publish"
           ELSE IF v = "ok"
           THEN /\ trace' = Append(trace, "read_ok")
                /\ speed' = "tick"
                /\ handed' = 0
                /\ pc' = "publish"
           ELSE /\ trace' = Append(trace, "read_fail")
                /\ UNCHANGED sample
                /\ pc' = AfterException(v)
    /\ UNCHANGED <<cfg, scene, stable, shutdown, world, vehicle,
                   kuksa_client, sessions, exit_code, exit_reason,
                   prev_trace, loop_entered, start_sink, last_probe,
                   hist_sig>>

\* mutant of NeedsConnect: a missing client is never replaced
NeedsConnect_Never(k) == FALSE

\* mutant of NeedsConnect: a connection is opened on every publish
NeedsConnect_Always(k) == TRUE

\* _publish: `if not self._kuksa_client`
NeedsConnect(k) == k = None

\* _publish: the except branch after set_current_values() raised; `d` is
\* the outcome of disconnect().  When disconnect() raises, the assignment
\* of None is not reached and the exception leaves _publish.
PublishFailure(d) ==
    IF d = "ok"
    THEN [client |-> None, closed |-> 1, exc |-> "none",
          ev |-> <<"disconnect_ok">>]
    ELSE [client |-> Client, closed |-> 0, exc |-> "Exception",
          ev |-> <<"disconnect_fail">>]

\* _loop: self._publish(speed, rpm) up to the set_current_values() call,
\* with the _connect_kuksa() it makes when no client is held.  c, p:
\* outcomes of connect() and set_current_values().
Publish ==
    /\ pc = "publish"
    /\ \E c \in SinkOutcomes, p \in SinkOutcomes :
        /\ Allowed(c) /\ Allowed(p)
        /\ LET k == IF NeedsConnect(kuksa_client) THEN ConnectKuksa(c)
                    ELSE [client |-> kuksa_client, opened |-> 0,
                          exc |-> "none", ev |-> <<>>]
           IN  /\ kuksa_client' = k.client
               /\ sessions' = sessions + k.opened
               /\ IF k.exc # "none"
                  THEN /\ trace' = trace \o k.ev
                       /\ pc' = AfterException(k.exc)
                       /\ UNCHANGED <<post_pubs, handed>>
                  ELSE IF k.client = None
                  THEN /\ trace' = trace \o k.ev
                       /\ pc' = "sleep"
                       /\ UNCHANGED <<post_pubs, handed>>
                  ELSE /\ post_pubs' = IF shutdown THEN Inc(post_pubs)
                                       ELSE post_pubs
                       /\ handed' = Inc(handed)
                       /\ trace' = trace \o k.ev \o
                                   <<IF p = "ok" THEN "publish_ok"
                                     ELSE "publish_fail">>
                       /\ pc' = "publish_sent"
    /\ UNCHANGED <<cfg, speed, scene, stable, shutdown, world, vehicle,
                   exit_code, exit_reason, prev_trace, loop_entered,
                   start_sink, last_probe, sig_pc>>

\* _publish after set_current_values() answered: the return, or the except
\* branch with disconnect() (outcome d), the assignment of None and the
\* sleep
PublishReturn ==
    /\ pc = "publish_sent"
    /\ IF Has(trace, "publish_ok")
       THEN /\ pc' = "sleep"
            /\ UNCHANGED <<kuksa_client, sessions, trace>>
       ELSE \E d \in SinkOutcomes :
            LET f == PublishFailure(d)
            IN  /\ kuksa_client' = f.client
                /\ sessions' = sessions - f.closed
                /\ trace' = trace \o f.ev
                /\ pc' = IF f.exc = "none" THEN "sleep"
                         ELSE AfterException(f.exc)
    /\ UNCHANGED <<cfg, sample, scene, stable, shutdown, world, vehicle,
                   exit_code, exit_reason, prev_trace, loop_entered,
                   start_sink, last_probe, hist_sig>>

\* _loop: except carla.TimeoutError: sleep, then self._connect_carla();
\* an exception raised by the handler leaves _loop and start()
HandleTimeout ==
    /\ pc = "timeout"
    /\ \E gw \in SourceOutcomes, call \in SourceOutcomes :
        /\ Allowed(gw) /\ Allowed(call)
        /\ LET r == ConnectCarla(gw, call)
           IN  /\ vehicle' = r.veh
               /\ world' = r.wld
               /\ trace' = trace \o ConnectCarlaEvents(gw, r)
               /\ last_probe' = IF r.exc = "none" THEN "unknown"
                                ELSE last_probe
               /\ IF r.exc = "none"
                  THEN /\ pc' = "sleep"
                       /\ UNCHANGED <<exit_code, exit_reason>>
                  ELSE Crash("tick_error", r.exc)
    /\ UNCHANGED <<cfg, sample, scene, stable, shutdown, kuksa_client, sessions,
                   prev_trace, loop_entered, start_sink, hist_sig>>

\* _loop: time.sleep(self.update_interval)
IntervalSleep ==
    /\ pc = "sleep"
    /\ pc' = "loop_head"
    /\ UNCHANGED <<cfg, sample, scene, stable, shutdown, world, vehicle,
                   kuksa_client, sessions, exit_code, exit_reason, trace,
                   prev_trace, loop_entered, start_sink, last_probe,
                   hist_sig>>

\* mutant of TeardownResult: disconnect() is called without testing the
\* reference, which raises when no client is held
TeardownResult_NoGuard(k, d) ==
    IF k # None /\ d = "ok"
    THEN [closed |-> 1, exc |-> "none", ev |-> <<"teardown", "disconnect_ok">>]
    ELSE [closed |-> 0, exc |-> "Exception",
          ev |-> <<"teardown", "disconnect_fail">>]

\* _teardown: `k` is _kuksa_client, `d` the outcome of disconnect().  The
\* finally clause clears the reference and lets the exception pass.
TeardownResult(k, d) ==
    IF k = None
    THEN [closed |-> 0, exc |-> "none", ev |-> <<"teardown">>]
    ELSE IF d = "ok"
    THEN [closed |-> 1, exc |-> "none", ev |-> <<"teardown", "disconnect_ok">>]
    ELSE [closed |-> 0, exc |-> "Exception",
          ev |-> <<"teardown", "disconnect_fail">>]

\* _loop: self._teardown(), then the return of start() to main()
Teardown ==
    /\ pc = "teardown"
    /\ \E d \in SinkOutcomes :
        LET t == TeardownResult(kuksa_client, d)
        IN  /\ trace' = trace \o t.ev
            /\ sessions' = sessions - t.closed
            /\ exit_code' = MainReturn(t.exc)
            /\ exit_reason' = IF t.exc = "none" THEN "clean"
                              ELSE "teardown_error"
    /\ kuksa_client' = None
    /\ pc' = "exited"
    /\ UNCHANGED <<cfg, sample, scene, stable, shutdown, world, vehicle, prev_trace,
                   loop_entered, start_sink, last_probe, hist_sig>>

Bridge ==
    \/ InstallSigint
    \/ InstallSigterm
    \/ ConnectCarlaAtStart
    \/ ConnectKuksaAtStart
    \/ LoopHead
    \/ ProbeVehicle
    \/ AcquireVehicle
    \/ ReadVelocity
    \/ Publish
    \/ PublishReturn
    \/ HandleTimeout
    \/ IntervalSleep
    \/ Teardown

Environment ==
    \/ StopHandler
    \/ Interrupt
    \/ Terminate
    \/ Spawn
    \/ Destroy
    \/ Stabilise

Next == Bridge \/ Environment

Spec == Init /\ [][Next]_vars

\* the interpreter keeps running the bridge's thread until main() returns
FairSpec == Spec /\ WF_vars(Bridge)

TypeOK ==
    /\ vehicle_id \in {NoId} \cup ActorIds
    /\ vehicle_role \in Roles
    /\ scene \subseteq ActorIds
    /\ pc \in {"setup", "setup_term", "connect_carla", "connect_kuksa",
               "loop_head", "probe", "acquire", "read", "publish_sent",
               "publish", "timeout", "sleep", "teardown", "exited"}
    /\ vehicle \in {NoId} \cup ActorIds
    /\ kuksa_client \in {None, Client}
    /\ sessions \in 0..1
    /\ exit_code \in {-15, -1, 0, 1}
    /\ post_pubs \in 0..MaxCount
    /\ speed \in {"unset", "tick", "old", "placeholder"}
    /\ handed \in 0..MaxCount

(* ------------------------------ claims --------------------------------- *)
StartupPcs == {"connect_carla", "connect_kuksa"}
TickPcs == {"probe", "acquire", "read", "publish", "publish_sent",
            "timeout"}
PublishCalled(t) == Has(t, "publish_ok") \/ Has(t, "publish_fail")
DisconnectCalled(t) == Has(t, "disconnect_ok") \/ Has(t, "disconnect_fail")

\* C1: once the loop has been entered it is left only because the shutdown
\* flag was set; no error of a tick propagates out of _loop and ends the
\* process.
C1_LoopLeftOnlyByShutdown ==
    (loop_entered /\ pc \in {"teardown", "exited"})
        => (shutdown /\ exit_reason # "tick_error")

\* C2: the bridge never silently stops reporting: once the loop was entered
\* and both endpoints stay healthy, then unless a shutdown is requested a
\* successful publish happens again and again.
C2_NeverStopsReporting ==
    (stable /\ loop_entered) ~> (shutdown \/ Has(trace, "publish_ok"))

\* start() failed in _connect_carla: get_world() or the acquisition raised
StartupFailed ==
    /\ ~loop_entered
    /\ Has(trace, "get_world_fail") \/ Has(trace, "acquire_fail")

\* C3: when the Source is unreachable or the acquisition fails at start-up,
\* the process exits with code 1, the loop is never entered, no Sink
\* connection is attempted and nothing is published.
C3_StartupFailureExits1 ==
    StartupFailed =>
        /\ pc = "exited"
        /\ exit_code = 1
        /\ start_sink = "none"
        /\ kuksa_client = None
        /\ sessions = 0
        /\ ~Has(trace, "sink_connect_ok") /\ ~Has(trace, "sink_connect_fail")
        /\ ~PublishCalled(trace) /\ ~PublishCalled(prev_trace)

C3_Witness ==
    /\ StartupFailed
    /\ Vehicles(scene) = {}
    /\ Has(trace, "acquire_fail")
    /\ exit_code = 1

\* C4: when the shutdown signal arrives after a successful start-up, the
\* process ends through teardown with no Sink connection held and with exit
\* status 0, also when the disconnect fails.
C4_ShutdownExitsClean ==
    (pc = "exited" /\ shutdown /\ sig_pc \notin {"setup"} \cup StartupPcs)
        => (exit_code = 0 /\ kuksa_client = None /\ Has(trace, "teardown"))

\* C5: when the shutdown signal arrives during the end-of-tick sleep, no
\* further tick begins, nothing is published after the signal, teardown
\* follows the sleep and the process ends with exit status 0.
C5_SignalDuringSleep ==
    sig_pc = "sleep" =>
        /\ pc \in {"sleep", "loop_head", "teardown", "exited"}
        /\ post_pubs = 0
        /\ pc = "exited" => (exit_code = 0 /\ Has(trace, "teardown"))

\* C6: a shutdown signal never cancels the tick in progress: the handler
\* moves nothing but the flag, teardown is entered only from the loop head,
\* no tick starts once the flag is set, and at most one publish call follows
\* the signal.
C6_NoMidTickCancel ==
    /\ [](shutdown => post_pubs <= 1)
    /\ [][shutdown /\ pc = "loop_head" =>
            pc' \in {"loop_head", "teardown"}]_vars
    /\ [][pc' = "teardown" => pc \in {"loop_head", "teardown"}]_vars
    /\ [][shutdown' # shutdown =>
            (pc' = pc /\ trace' = trace /\ vehicle' = vehicle
             /\ kuksa_client' = kuksa_client)]_vars
    /\ [][(shutdown /\ pc \in TickPcs) =>
            pc' \in TickPcs \cup {"sleep", "exited"}]_vars

C6_Witness ==
    /\ sig_pc \in {"probe", "read", "publish"}
    /\ post_pubs = 1
    /\ pc = "exited"
    /\ exit_code = 0

\* C7: after a publish failure on a connected Sink in tick N, a healthy
\* tick N+1 first reconnects the Sink and then publishes.
C7_ReconnectAfterFailedPublish ==
    (/\ pc = "sleep"
     /\ Has(prev_trace, "publish_fail")
     /\ ~Has(prev_trace, "sink_connect_ok")
     /\ Has(trace, "probe_alive")
     /\ Has(trace, "read_ok")
     /\ ~Has(trace, "sink_connect_fail")
     /\ ~Has(trace, "publish_fail"))
        => Before(trace, "sink_connect_ok", "publish_ok")

C9_SinkFailureNonFatal ==
    /\ [](start_sink # "none" =>
            (exit_reason # "startup_failure" /\ pc \notin StartupPcs))
    /\ []((start_sink = "fail" /\ pc = "loop_head" /\ ~loop_entered)
            => (kuksa_client = None /\ sessions = 0))
    /\ [][pc = "connect_kuksa" /\ pc' # pc => pc' = "loop_head"]_vars

C9_Witness ==
    /\ start_sink = "fail"
    /\ pc = "probe"
    /\ prev_trace = <<>>
    /\ kuksa_client = None

\* C10 as stated: at most one Sink session is open, a session is opened
\* only when none is held, and a reference is dropped only once its session
\* has been disconnected.
C10_Original ==
    /\ [](sessions <= 1)
    /\ [](kuksa_client = Client => sessions = 1)
    /\ [](kuksa_client = None => sessions = 0)
    /\ [][sessions' > sessions => (kuksa_client = None /\ sessions = 0)]_vars
    /\ [][(kuksa_client = Client /\ kuksa_client' = None) =>
            (Has(trace', "disconnect_ok") /\ sessions' = 0)]_vars

\* C10: the held vehicle handle changes only by a successful acquisition
\* that replaces it, at most one Sink session is open and a session is
\* opened only when none is held; a reference is dropped only by a step
\* that called disconnect() on it: inside the loop only when the call
\* succeeded, in teardown also when it raised, and only then is a session
\* left open without a reference, as the process ends.
C10_SingleTargetSingleSink ==
    /\ [][vehicle' # vehicle =>
            (Has(trace', "acquire_ok") /\ trace' # trace)]_vars
    /\ [](sessions <= 1)
    /\ [](kuksa_client = Client => sessions = 1)
    /\ [](kuksa_client = None =>
            (sessions = 0 \/ (/\ pc = "exited"
                              /\ Before(trace, "teardown",
                                        "disconnect_fail"))))
    /\ [][sessions' > sessions => (kuksa_client = None /\ sessions = 0)]_vars
    /\ [][(kuksa_client = Client /\ kuksa_client' = None) =>
            IF pc = "teardown"
            THEN \/ Has(trace', "disconnect_ok") /\ sessions' = 0
                 \/ Has(trace', "disconnect_fail") /\ sessions' = 1
            ELSE /\ Has(trace', "disconnect_ok") /\ sessions' = 0
                 /\ ~Has(trace, "disconnect_ok")]_vars

C10_Witness ==
    /\ Has(prev_trace, "disconnect_ok")
    /\ Has(trace, "sink_connect_ok")
    /\ kuksa_client = Client
    /\ sessions = 1

\* a step in which set_current_values() is called
PublishStep == PublishCalled(trace') /\ ~PublishCalled(trace)

\* C11: delivery is at most once and unbuffered: what a publish hands to
\* the Sink was read in the same tick and was not handed over before; a
\* sample of an earlier tick is never handed over.
C11_AtMostOnceNoBuffering ==
    /\ [][PublishStep => (speed = "tick" /\ handed = 0)]_vars
    /\ [](handed <= 1)
    /\ [](speed = "old" => pc # "publish")
    /\ [](PublishCalled(trace) => Has(trace, "read_ok"))

C11_Witness ==
    /\ Has(prev_trace, "publish_fail")
    /\ Has(trace, "publish_ok")
    /\ speed = "tick"
    /\ handed = 1

(* --------------------- _ensure_vehicle on its own ---------------------- *)
SelActors == 1..MaxSelActor
SelRoles == {NoRole, "hero", "npc", "taxi"}

\* a scene, an explicit id (or none) and a role label (or none)
SelectInit ==
    /\ Parked
    /\ calc \in [fn : {"select"}, sc : SUBSET SelActors,
                 id : {NoId} \cup SelActors, role : SelRoles,
                 done : {FALSE}, out : {NoId}]

\* the selection of _ensure_vehicle is run on the arguments
ApplySelect ==
    /\ calc.fn = "select" /\ ~calc.done
    /\ calc' = [calc EXCEPT !.done = TRUE,
                            !.out = Select(calc.sc, calc.id, calc.role)]
    /\ UNCHANGED bridge_vars

SelectSpec == SelectInit /\ [][ApplySelect]_vars

\* C12: with an explicit id the actor of that id is selected when it
\* exists; when it is absent the acquisition fails, whatever vehicles and
\* roles the scene holds.
C12_ExplicitIdNoFallback ==
    (calc.done /\ calc.id # NoId) =>
        calc.out = (IF calc.id \in calc.sc THEN calc.id ELSE NoId)

C12_Witness ==
    /\ calc.done /\ calc.id # NoId /\ calc.id \notin calc.sc
    /\ \E a \in Vehicles(calc.sc) : RoleOf(a) = calc.role
    /\ calc.out = NoId

\* C13: without an explicit id the first vehicle carrying the role label is
\* selected; when no vehicle carries it or no label is given the first
\* vehicle is selected; when the scene holds no vehicle the acquisition
\* fails.
C13_RoleThenFirstVehicle ==
    (calc.done /\ calc.id = NoId) =>
        LET vs == {a \in calc.sc : IsVehicle(a)}
            ms == {a \in vs : RoleOf(a) = calc.role}
        IN  /\ (calc.role # NoRole /\ ms # {}) =>
                    (calc.out \in ms /\ \A m \in ms : calc.out <= m)
            /\ ((calc.role = NoRole \/ ms = {}) /\ vs # {}) =>
                    (calc.out \in vs /\ \A v \in vs : calc.out <= v)
            /\ (vs = {}) => calc.out = NoId

C13_Witness ==
    /\ calc.done /\ calc.id = NoId /\ calc.role = "hero"
    /\ {1, 2, 4} \subseteq calc.sc
    /\ calc.out = 2

(* ---------------------- _estimate_rpm on its own ----------------------- *)
\* Numbers are scaled to integers: speeds and max_speed_kmh in tenths of a
\* km/h, rpm_idle and rpm_max in halves of an rpm; the result is in rpm.

\* mutant of Clamp: min(high, max(low, value)), the upper bound last
Clamp_UpperLast(value, low, high) ==
    LET m == IF low > value THEN low ELSE value
    IN  IF high < m THEN high ELSE m

\* clamp(value, low, high) = max(low, min(high, value))
Clamp(value, low, high) ==
    LET m == IF high < value THEN high ELSE value
    IN  IF low > m THEN low ELSE m

\* _estimate_rpm up to its last clamp: clamp(rpm, idle, max) as the
\* fraction num / q of an rpm.  `inexact` tells that the floating-point
\* product ratio * (max - idle) was formed with a ratio strictly between 0
\* and 1, so that its last bit is not determined by the exact value.
RpmValue(s, idle2, max2, m) ==
    LET den == IF m <= 0 THEN 1 ELSE m
        n == IF m <= 0 THEN 0 ELSE Clamp(s, 0, m)
        rpm == idle2 * den + n * (max2 - idle2)
    IN  [num |-> Clamp(rpm, idle2 * den, max2 * den),
         q |-> 2 * den,
         inexact |-> 0 < n /\ n < den /\ idle2 < max2]

\* round(x, 0) of the float x = num / q: the nearest integer, the even one
\* on an exact tie; on a tie reached through an inexact product the float
\* lies on either side, so both neighbours are possible results
Round0(num, q, inexact) ==
    LET fl == num \div q
        rem == num % q
    IN  IF 2 * rem < q THEN {fl}
        ELSE IF 2 * rem > q THEN {fl + 1}
        ELSE IF inexact THEN {fl, fl + 1}
        ELSE IF fl % 2 = 0 THEN {fl} ELSE {fl + 1}

\* mutant of EstimateRpm: neither the ratio nor the result is clamped
EstimateRpm_NoClamp(s, idle2, max2, m) ==
    LET den == IF m <= 0 THEN 1 ELSE m
        n == IF m <= 0 THEN 0 ELSE s
    IN  Round0(idle2 * den + n * (max2 - idle2), 2 * den, FALSE)

\* mutant of EstimateRpm: the map runs from max_rpm down to idle
EstimateRpm_Descending(s, idle2, max2, m) ==
    LET den == IF m <= 0 THEN 1 ELSE m
        n == IF m <= 0 THEN 0 ELSE Clamp(s, 0, m)
        rpm == max2 * den - n * (max2 - idle2)
    IN  Round0(Clamp(rpm, idle2 * den, max2 * den), 2 * den, FALSE)

\* mutant of EstimateRpm: the value is truncated instead of rounded
EstimateRpm_Truncate(s, idle2, max2, m) ==
    LET v == RpmValue(s, idle2, max2, m)
    IN  {v.num \div v.q}

\* mutant of EstimateRpm: a non-positive max_speed_kmh gives ratio 1
EstimateRpm_RatioOne(s, idle2, max2, m) ==
    LET v == IF m <= 0 THEN RpmValue(1, idle2, max2, 1)
             ELSE RpmValue(s, idle2, max2, m)
    IN  Round0(v.num, v.q, v.inexact)

\* _estimate_rpm: the values the call can return
EstimateRpm(s, idle2, max2, m) ==
    LET v == RpmValue(s, idle2, max2, m)
    IN  Round0(v.num, v.q, v.inexact)

EstSpeeds == {-10, -1} \cup {4 * i : i \in 0..MaxSpeedIdx}
EstIdle == {1600, 1601, 1603, 10000}
EstMax == {10000, 1600, 1000, 10001}
EstMaxSpeed == {1600, 1000, 0, -10}

\* a speed and a configuration of the estimator
EstimateInit ==
    /\ Parked
    /\ calc \in [fn : {"estimate"}, s : EstSpeeds, idle : EstIdle,
                 max : EstMax, m : EstMaxSpeed, done : {FALSE}, out : {0}]

\* _estimate_rpm is run on the arguments
ApplyEstimate ==
    /\ calc.fn = "estimate" /\ ~calc.done
    /\ \E r \in EstimateRpm(calc.s, calc.idle, calc.max, calc.m) :
            calc' = [calc EXCEPT !.done = TRUE, !.out = r]
    /\ UNCHANGED bridge_vars

EstimateSpec == EstimateInit /\ [][ApplyEstimate]_vars

\* the integers nearest to num / q (two of them on a tie), q > 0
Nearest(num, q) ==
    {k \in ((num \div q) - 1)..((num \div q) + 2) :
        /\ 2 * (k * q - num) <= q
        /\ 2 * (num - k * q) <= q}

\* the default configuration: idle 800, max 5000, max speed 160
DefaultEst == calc.idle = 1600 /\ calc.max = 10000 /\ calc.m = 1600

\* the value the linear map of the estimator takes, rounded, for m # 0
LinearMap ==
    LET den == IF calc.m > 0 THEN calc.m ELSE 0 - calc.m
        sgn == IF calc.m > 0 THEN calc.s ELSE 0 - calc.s
        n == Clamp(sgn, 0, den)
    IN  Nearest(calc.idle * den + n * (calc.max - calc.idle), 2 * den)

EstimatePoints ==
    (calc.done /\ DefaultEst) =>
        /\ calc.s = 0 => calc.out = 800
        /\ calc.s = 800 => calc.out = 2900
        /\ calc.s = 1600 => calc.out = 5000
        /\ calc.s > 1600 => calc.out = 5000
        /\ calc.s < 0 => calc.out = 800

\* C14 as stated: the five values of the default configuration, and for
\* every configuration the result is
\* round(idle + clamp(speed/max_speed, 0, 1) * (max_rpm - idle)).
C14_Original ==
    /\ EstimatePoints
    /\ (calc.done /\ calc.m # 0) => calc.out \in LinearMap

\* C14: the five values of the default configuration; for idle <= max_rpm
\* and max_speed > 0 the result is
\* round(idle + clamp(speed/max_speed, 0, 1) * (max_rpm - idle)).
C14_RpmLinearMap ==
    /\ EstimatePoints
    /\ (calc.done /\ calc.m > 0 /\ calc.idle <= calc.max)
            => calc.out \in LinearMap

C14_Witness ==
    /\ calc.done /\ DefaultEst
    /\ calc.s = 800
    /\ calc.out = 2900

\* C15 as stated: with max_speed_kmh <= 0 the result equals idle.
C15_Original ==
    (calc.done /\ calc.m <= 0) => 2 * calc.out = calc.idle

\* C15: with max_speed_kmh <= 0 the result is idle rounded to an integer
\* (idle itself when idle is integral, the even neighbour when idle ends in
\* .5), for every speed and every idle and max_rpm.
C15_ZeroMaxSpeedGivesIdle ==
    (calc.done /\ calc.m <= 0) =>
        IF calc.idle % 2 = 0 THEN 2 * calc.out = calc.idle
        ELSE /\ calc.out \in Nearest(calc.idle, 2)
             /\ calc.out % 2 = 0

C15_Witness ==
    /\ calc.done /\ calc.m = 0
    /\ calc.s > 0
    /\ calc.idle = 1600 /\ calc.max = 10000
    /\ calc.out = 800

(* -------------------- _compute_speed_kmh on its own -------------------- *)
\* Velocity components are whole units per second; the speed is scaled to
\* thousandths of a km/h, the three decimals round(speed, 3) keeps.

\* the largest n in lo..hi with n * n <= k
RECURSIVE ISqrtIn(_, _, _)
ISqrtIn(lo, hi, k) ==
    IF lo >= hi THEN lo
    ELSE LET mid == (lo + hi + 1) \div 2
         IN  IF mid * mid <= k THEN ISqrtIn(mid, hi, k)
             ELSE ISqrtIn(lo, mid - 1, k)

\* round(math.sqrt(k)) for an integer k >= 0
RoundSqrt(k) ==
    LET n == ISqrtIn(0, 46340, k)
    IN  IF k > n * n + n THEN n + 1 ELSE n

\* mutant of ComputeSpeedKmh: the vertical component is left out
ComputeSpeedKmh_NoZ(veh, x, y, z) ==
    IF veh = NoId THEN 0
    ELSE RoundSqrt(12960000 * (x * x + y * y))

\* _compute_speed_kmh: round(3.6 * sqrt(x^2 + y^2 + z^2), 3) in thousandths
\* (3600^2 = 12960000), or 0.0 when no vehicle is held
ComputeSpeedKmh(veh, x, y, z) ==
    IF veh = NoId THEN 0
    ELSE RoundSqrt(12960000 * (x * x + y * y + z * z))

VelRange == (0 - MaxVel)..MaxVel

\* a held vehicle (or none) and its velocity vector
SpeedInit ==
    /\ Parked
    /\ calc \in [fn : {"speed"}, veh : {NoId, 1}, x : VelRange, y : VelRange,
                 z : VelRange, done : {FALSE}, out : {0}]

\* _compute_speed_kmh is run on the arguments
ApplySpeed ==
    /\ calc.fn = "speed" /\ ~calc.done
    /\ calc' = [calc EXCEPT !.done = TRUE,
                    !.out = ComputeSpeedKmh(calc.veh, calc.x, calc.y, calc.z)]
    /\ UNCHANGED bridge_vars

SpeedSpec == SpeedInit /\ [][ApplySpeed]_vars

\* C16: for every velocity vector of a held vehicle the speed is 3.6 times
\* the Euclidean norm rounded to three decimals (it differs from it by at
\* most half a thousandth), is never negative, and is 0.0 for the zero
\* vector.
C16_SpeedIsScaledNorm ==
    (calc.done /\ calc.veh # NoId) =>
        LET k == 12960000 * (calc.x * calc.x + calc.y * calc.y
                             + calc.z * calc.z)
            r == calc.out
        IN  /\ r >= 0
            /\ (calc.x = 0 /\ calc.y = 0 /\ calc.z = 0) => r = 0
            /\ k <= r * r + r
            /\ r > 0 => k >= r * r - r + 1

C16_Witness ==
    /\ calc.done /\ calc.veh # NoId
    /\ calc.x = 1 /\ calc.y = -2 /\ calc.z = 2
    /\ calc.out = 10800

(* ------------------- the batch of _publish on its own ------------------ *)
PubPaths == {"Vehicle.Speed", "Vehicle.Powertrain.CombustionEngine.Speed",
             "Vehicle.Custom"}
PubSpeeds == {0, 800, 2900}
PubRpms == {800, 2900, 5000}

\* mutant of Updates: the two values are attached to the wrong paths
Updates_Swapped(sp, rp, spd, rpm) ==
    [p \in {sp, rp} |-> IF p = sp THEN rpm ELSE spd]

\* _publish: the dict literal {vss_speed_path: Datapoint(speed),
\* vss_rpm_path: Datapoint(rpm)}; of two equal keys the later one stays
Updates(sp, rp, spd, rpm) ==
    [p \in {sp, rp} |-> IF p = rp THEN rpm ELSE spd]

\* the two configured paths and the two values of a tick
UpdatesInit ==
    /\ Parked
    /\ calc \in [fn : {"updates"}, sp : PubPaths, rp : PubPaths,
                 spd : PubSpeeds, rpm : PubRpms, done : {FALSE},
                 out : {<<>>}]

\* _publish builds the batch it passes to set_current_values
ApplyUpdates ==
    /\ calc.fn = "updates" /\ ~calc.done
    /\ calc' = [calc EXCEPT !.done = TRUE,
                    !.out = Updates(calc.sp, calc.rp, calc.spd, calc.rpm)]
    /\ UNCHANGED bridge_vars

UpdatesSpec == UpdatesInit /\ [][ApplyUpdates]_vars

\* C17 as stated: for every pair of paths, equal ones included, the batch
\* maps the speed path to the speed value and the rpm path to the rpm value.
C17_Original ==
    calc.done =>
        /\ DOMAIN calc.out = {calc.sp, calc.rp}
        /\ calc.out[calc.sp] = calc.spd
        /\ calc.out[calc.rp] = calc.rpm

\* C17: the batch holds exactly the configured paths and maps the rpm path
\* to the rpm value; it maps the speed path to the speed value when the two
\* paths differ, and holds the rpm value alone when they are equal.
C17_BatchMapsPaths ==
    calc.done =>
        /\ DOMAIN calc.out = {calc.sp, calc.rp}
        /\ calc.out[calc.rp] = calc.rpm
        /\ calc.sp # calc.rp => calc.out[calc.sp] = calc.spd
        /\ calc.sp = calc.rp => Cardinality(DOMAIN calc.out) = 1

C17_Witness ==
    /\ calc.done
    /\ calc.sp = "Vehicle.Speed"
    /\ calc.rp = "Vehicle.Powertrain.CombustionEngine.Speed"
    /\ calc.spd = 2900 /\ calc.rpm = 800
    /\ calc.out[calc.sp] = 2900 /\ calc.out[calc.rp] = 800

(* ---------------------- _teardown called again ------------------------- *)
\* the default selection
TeardownInit == Init /\ vehicle_id = NoId /\ vehicle_role = "hero"

\* _teardown is called once more on the bridge after _loop has run it
TeardownAgain ==
    /\ pc = "exited"
    /\ exit_reason \in {"clean", "teardown_error"}
    /\ calc.fn = "none"
    /\ \E d \in SinkOutcomes :
        LET t == TeardownResult(kuksa_client, d)
        IN  /\ calc' = [fn |-> "teardown", exc |-> t.exc, ev |-> t.ev]
            /\ sessions' = sessions - t.closed
    /\ kuksa_client' = None
    /\ UNCHANGED <<vehicle_id, vehicle_role, scene, stable, pc, shutdown,
                   world, vehicle, exit_code, exit_reason, trace, prev_trace,
                   loop_entered, start_sink, last_probe, sig_pc, post_pubs,
                   speed, handed>>

TeardownSpec == TeardownInit /\ [][Next \/ TeardownAgain]_vars

\* C18: teardown with no Sink client held calls no disconnect and raises
\* nothing, and a second teardown leaves the state the first one left.
C18_TeardownIdempotent ==
    /\ [][(pc = "teardown" /\ pc' = "exited" /\ kuksa_client = None) =>
            (~DisconnectCalled(trace') /\ exit_code' = 0)]_vars
    /\ [](calc.fn = "teardown" =>
            (calc.ev = <<"teardown">> /\ calc.exc = "none"
             /\ kuksa_client = None))
    /\ [][calc' # calc =>
            (kuksa_client' = kuksa_client /\ sessions' = sessions)]_vars

C18_Witness ==
    /\ calc.fn = "teardown"
    /\ Has(trace, "disconnect_ok")
    /\ kuksa_client = None
    /\ sessions = 0

\* C19: after a failed publish no Sink client is held when the next tick
\* starts, also when the disconnect itself failed.
C19_DisconnectedAfterFailedPublish ==
    (pc = "probe" /\ Has(prev_trace, "publish_fail"))
        => kuksa_client = None

\* C20: a tick in which the held handle is not alive and the acquisition
\* fails makes no velocity read, no Sink connection attempt and no publish,
\* does not end the process, and is followed by the next tick.
C20_FailedAcquisitionSkipsTick ==
    (Has(trace, "probe_dead") /\ Has(trace, "acquire_fail")) =>
        /\ ~Has(trace, "read_ok") /\ ~Has(trace, "read_fail")
        /\ ~Has(trace, "sink_connect_ok") /\ ~Has(trace, "sink_connect_fail")
        /\ ~PublishCalled(trace)
        /\ pc \in {"sleep", "loop_head", "timeout"}
        /\ exit_code = -1

(* --------------------- claims about whole ticks ------------------------ *)
SinkAttempted(t) == Has(t, "sink_connect_ok") \/ Has(t, "sink_connect_fail")
ReadCalled(t) == Has(t, "read_ok") \/ Has(t, "read_fail")
AcquireCalled(t) == Has(t, "acquire_ok") \/ Has(t, "acquire_fail")
\* the tick's body is over and no client is held, none was held when the
\* tick began, and no connection attempt of the tick succeeded
SinkStayedDisconnected ==
    /\ loop_entered /\ pc = "sleep"
    /\ kuksa_client = None
    /\ ~Has(trace, "publish_fail")

\* C21 as stated: while no Sink client is held every tick makes a Sink
\* connection attempt, whatever the state of the vehicle Source.
C21_Original ==
    SinkStayedDisconnected => Has(trace, "sink_connect_fail")

\* C21: while no Sink client is held, every tick whose velocity read
\* succeeds makes a Sink connection attempt, until one succeeds; a tick
\* whose acquisition or velocity read fails makes none.
C21_SinkRetriedEachPublishingTick ==
    /\ (SinkStayedDisconnected /\ Has(trace, "read_ok"))
            => Has(trace, "sink_connect_fail")
    /\ (loop_entered /\ SinkAttempted(trace)) => Has(trace, "read_ok")
    /\ (loop_entered /\ Has(trace, "sink_connect_ok") /\ pc = "sleep")
            => PublishCalled(trace)

C21_Witness ==
    /\ pc = "sleep"
    /\ Has(prev_trace, "sink_connect_fail")
    /\ ~PublishCalled(prev_trace)
    /\ Has(trace, "sink_connect_ok")
    /\ Has(trace, "publish_ok")

\* C22: after a tick whose velocity read failed, target acquisition is
\* invoked before the next velocity read and before the next publish, also
\* when the old handle still answers alive; the tick of the failed read
\* publishes nothing.
C22_ReacquireAfterFailedRead ==
    /\ (loop_entered /\ Has(trace, "read_fail")) => ~PublishCalled(trace)
    /\ (loop_entered /\ Has(prev_trace, "read_fail")
            /\ (ReadCalled(trace) \/ PublishCalled(trace)))
        => (AcquireCalled(prev_trace) \/ AcquireCalled(trace))

Count(t, e) == Cardinality({i \in 1..Len(t) : t[i] = e})
AcquireCount(t) == Count(t, "acquire_ok") + Count(t, "acquire_fail")
Reconnected(t) == Has(t, "get_world_ok") \/ Has(t, "get_world_fail")
\* the step of a tick that probes a held handle and finds it not alive
ProbeStepDead ==
    /\ pc = "probe" /\ pc' # "probe"
    /\ vehicle # NoId /\ vehicle \notin scene
\* the step of a tick that runs the acquisition
AcquireStep == pc = "acquire" /\ pc' # "acquire"

\* C23 as stated: a tick that finds the handle not alive and fails to
\* acquire invokes acquisition exactly once.
C23_Original ==
    (pc \in {"sleep", "loop_head"} /\ Has(trace, "probe_dead")
        /\ Has(trace, "acquire_fail")) => AcquireCount(trace) = 1

\* C23: a tick that finds the handle not alive invokes acquisition; when no
\* selectable vehicle exists the acquisition fails and, unless it failed
\* with a Source timeout, it is the only one of the tick.  When a
\* selectable vehicle exists and the scene query succeeds, the acquisition
\* succeeds with the selected vehicle and the same tick goes on to the
\* velocity read, and to the publish when the read succeeds and a Sink
\* connection is held or opened.
C23_AbsenceReprobedEachTick ==
    /\ [][ProbeStepDead => pc' = "acquire"]_vars
    /\ [][AcquireStep =>
            /\ AcquireCount(trace') = AcquireCount(trace) + 1
            /\ Select(scene, vehicle_id, vehicle_role) = NoId =>
                    (Has(trace', "acquire_fail")
                     /\ pc' \in {"sleep", "timeout"})
            /\ Has(trace', "acquire_ok") =>
                    /\ vehicle' = Select(scene, vehicle_id, vehicle_role)
                    /\ pc' = "read"
            /\ stable => Has(trace', "acquire_ok")]_vars
    /\ []((loop_entered /\ Has(trace, "probe_dead")
            /\ pc \notin {"probe", "acquire", "timeout"}
            /\ ~Reconnected(trace))
          => AcquireCount(trace) = 1)
    /\ []((pc = "sleep" /\ Has(trace, "probe_dead")
            /\ Has(trace, "acquire_ok") /\ ~Reconnected(trace))
          => ReadCalled(trace))
    /\ []((pc = "sleep" /\ Has(trace, "read_ok")
            /\ ~Has(trace, "sink_connect_fail"))
          => PublishCalled(trace))

C23_Witness ==
    /\ pc = "sleep"
    /\ prev_trace = <<"probe_dead", "acquire_fail">>
    /\ Has(trace, "probe_dead")
    /\ Has(trace, "acquire_ok")
    /\ Has(trace, "read_ok")
    /\ Has(trace, "publish_ok")
    /\ vehicle \in scene

SinkAttempts(t) == Count(t, "sink_connect_ok") + Count(t, "sink_connect_fail")

\* C24: a tick makes at most one Sink connection attempt, and only when no
\* client is held; after a failed attempt the tick makes no publish call
\* and no further attempt, and ends with no client held.
C24_OneSinkAttemptPerTick ==
    /\ [](loop_entered => SinkAttempts(trace) <= 1)
    /\ [][(loop_entered /\ SinkAttempts(trace') > SinkAttempts(trace))
            => kuksa_client = None]_vars
    /\ []((loop_entered /\ Has(trace, "sink_connect_fail")) =>
            /\ ~PublishCalled(trace)
            /\ ~Has(trace, "sink_connect_ok")
            /\ kuksa_client = None
            /\ pc \in {"sleep", "loop_head"})

C24_Witness ==
    /\ pc = "sleep"
    /\ prev_trace = <<"probe_alive", "read_ok", "sink_connect_fail">>
    /\ trace = <<"probe_alive", "read_ok", "sink_connect_fail">>

\* position of a call in the order of the steps of a tick
Rank(e) ==
    CASE e \in {"probe_alive", "probe_dead"} -> 1
      [] e \in {"acquire_ok", "acquire_fail"} -> 2
      [] e \in {"read_ok", "read_fail"} -> 3
      [] e \in {"sink_connect_ok", "sink_connect_fail"} -> 4
      [] e \in {"publish_ok", "publish_fail"} -> 5
      [] e \in {"disconnect_ok", "disconnect_fail"} -> 6
      [] OTHER -> 7
\* the calls of the try block of a tick, without those of the timeout
\* handler
Body(t) ==
    IF Reconnected(t)
    THEN SubSeq(t, 1, Min({Pos(t, e) : e \in {g \in {"get_world_ok",
                            "get_world_fail"} : Has(t, g)}}) - 1)
    ELSE t
Sequential(t) ==
    \A i, j \in 1..Len(t) : i < j => Rank(t[i]) < Rank(t[j])

\* C25: the calls of a tick follow the order probe, acquisition, velocity
\* read, Sink connect, publish; every tick, published, skipped or failed,
\* is followed by the interval sleep, and a tick or the teardown begins
\* only after the sleep of the tick before.
C25_SequentialStepsThenSleep ==
    /\ []((loop_entered /\ pc \in TickPcs \cup {"sleep", "loop_head"})
            => Sequential(Body(trace)))
    /\ [][(pc \in TickPcs /\ pc' \notin TickPcs) => pc' = "sleep"]_vars
    /\ [][(pc' = "loop_head" /\ pc # "loop_head")
            => pc \in {"sleep", "connect_kuksa"}]_vars

\* C26 as stated: for idle <= max_rpm the rounded result lies in
\* [idle, max_rpm].
C26_Original ==
    (calc.done /\ calc.idle <= calc.max) =>
        (calc.idle <= 2 * calc.out /\ 2 * calc.out <= calc.max)

\* C26: for idle <= max_rpm the result lies within half an rpm of
\* [idle, max_rpm], and inside the interval when idle and max_rpm are
\* integers.
C26_RpmWithinRange ==
    (calc.done /\ calc.idle <= calc.max) =>
        /\ calc.idle - 1 <= 2 * calc.out
        /\ 2 * calc.out <= calc.max + 1
        /\ (calc.idle % 2 = 0 /\ calc.max % 2 = 0) =>
                (calc.idle <= 2 * calc.out /\ 2 * calc.out <= calc.max)

C26_Witness ==
    /\ calc.done
    /\ calc.idle = 1600 /\ calc.max = 10000 /\ calc.m = 1000
    /\ calc.s = 1800
    /\ calc.out = 5000

\* C27: a tick that fails with a Source timeout publishes nothing; its
\* handler opens a new Source session and, when the world is obtained,
\* re-runs the acquisition on it before any further velocity read or
\* publish; the recovery leaves the Sink client and its session alone.
C27_TimeoutRecovery ==
    /\ [](pc = "timeout" => ~PublishCalled(trace))
    /\ [][(pc = "timeout" /\ pc' # "timeout") =>
            /\ Reconnected(trace')
            /\ Has(trace', "get_world_ok") => AcquireCalled(
                    SubSeq(trace', Pos(trace', "get_world_ok"), Len(trace')))
            /\ kuksa_client' = kuksa_client /\ sessions' = sessions
            /\ pc' = "sleep" =>
                    vehicle' = Select(scene, vehicle_id, vehicle_role)]_vars
    /\ []((loop_entered /\ Reconnected(trace)
            /\ pc \in {"sleep", "loop_head"}) =>
            /\ ~PublishCalled(trace)
            /\ Len(trace) >= 2
            /\ trace[Len(trace) - 1] = "get_world_ok"
            /\ trace[Len(trace)] = "acquire_ok")

C27_Witness ==
    /\ Has(prev_trace, "read_fail")
    /\ Has(prev_trace, "get_world_ok")
    /\ kuksa_client = Client
    /\ Has(trace, "read_ok")
    /\ Has(trace, "publish_ok")
    /\ ~SinkAttempted(trace)

\* C28: a batch is sent only while a client is held, and the last Sink
\* call before every publish is a successful connect or a successful
\* publish, never a failed publish.
C28_PublishOnlyWhileConnected ==
    /\ [][PublishStep =>
            (kuksa_client = Client \/ Has(trace', "sink_connect_ok"))]_vars
    /\ [][(PublishStep /\ loop_entered /\ Has(prev_trace, "publish_fail"))
            => Has(trace', "sink_connect_ok")]_vars

\* C29: at every publish a handle is held that answered alive to the
\* probe of this tick or was acquired in this tick, and the value passed
\* on is never the placeholder of a missing handle.
C29_PublishFromLiveHandle ==
    (loop_entered /\ (pc = "publish" \/ PublishCalled(trace))) =>
        /\ HasHandle(vehicle)
        /\ Has(trace, "probe_alive") \/ Has(trace, "acquire_ok")
        /\ speed # "placeholder"
        /\ ~Has(trace, "read_placeholder")

C29_Witness ==
    /\ Has(trace, "probe_dead")
    /\ Has(trace, "acquire_ok")
    /\ Has(trace, "publish_ok")
    /\ vehicle \in scene
    /\ Has(prev_trace, "probe_alive")
    /\ Has(prev_trace, "publish_ok")

\* C30: a run that entered the loop and ended ran teardown exactly once,
\* holds no Sink client afterwards, and made no acquisition, velocity
\* read, Sink connect or publish after the teardown.
C30_TeardownOnEveryExit ==
    (loop_entered /\ pc = "exited") =>
        /\ Count(trace, "teardown") = 1
        /\ kuksa_client = None
        /\ \A i \in 1..Len(trace) :
                trace[i] \in {"teardown", "disconnect_ok", "disconnect_fail"}

\* C31: the signal handler changes the shutdown flag and nothing else of
\* the bridge, and no step of the bridge clears the flag.
C31_FlagOnlyAndMonotonic ==
    /\ [][shutdown => shutdown']_vars
    /\ [][shutdown' # shutdown =>
            /\ shutdown'
            /\ UNCHANGED <<vehicle, world, kuksa_client, sessions, pc,
                           trace, speed, handed, exit_code>>]_vars

C31_Witness ==
    /\ shutdown
    /\ sig_pc = "timeout"
    /\ pc = "sleep"
    /\ Has(trace, "get_world_ok")
    /\ Has(trace, "acquire_ok")
    /\ kuksa_client = Client

\* C32: when the signal arrives during start-up and start-up succeeds, no
\* tick runs, no velocity is read, nothing is published, teardown
\* disconnects the Sink connection opened at start-up and the exit status
\* is 0.
C32_SignalDuringStartup ==
    (sig_pc \in StartupPcs /\ loop_entered /\ pc = "exited") =>
        /\ prev_trace = <<>>
        /\ speed = "unset" /\ handed = 0
        /\ \A i \in 1..Len(trace) :
                trace[i] \in {"teardown", "disconnect_ok"}
        /\ start_sink = "ok" => Has(trace, "disconnect_ok")
        /\ sessions = 0
        /\ exit_code = 0

\* a tick ended in `except RuntimeError` or `except Exception` of _loop
GenericHandled ==
    /\ loop_entered /\ pc = "sleep" /\ ~Reconnected(trace)
    /\ \/ Has(trace, "acquire_fail")
       \/ Has(trace, "read_fail")
       \/ Has(trace, "disconnect_fail")

\* C33 as stated: a tick that ends in the generic error handlers has
\* changed neither the held handle nor the Sink connection.
C33_Original ==
    GenericHandled =>
        (~Has(trace, "acquire_ok") /\ ~Has(trace, "sink_connect_ok"))

\* C33: a failed acquisition leaves the held handle as it was, and the
\* generic error handlers change neither the handle nor the Sink client:
\* a failed velocity read keeps handle, client and session, and a publish
\* whose disconnect raised keeps the handle and the client it published on.
C33_FailureKeepsHandle ==
    /\ [][Count(trace', "acquire_fail") > Count(trace, "acquire_fail")
            => (vehicle' = vehicle /\ kuksa_client' = kuksa_client
                /\ sessions' = sessions)]_vars
    /\ [][(pc = "read" /\ Has(trace', "read_fail"))
            => (vehicle' = vehicle /\ kuksa_client' = kuksa_client
                /\ sessions' = sessions)]_vars
    /\ [][(pc = "publish_sent" /\ Has(trace', "disconnect_fail"))
            => (vehicle' = vehicle /\ kuksa_client' = Client
                /\ sessions' = 1)]_vars

C33_Witness ==
    /\ pc = "sleep"
    /\ trace = <<"probe_dead", "acquire_fail">>
    /\ HasHandle(vehicle) /\ vehicle \notin scene
    /\ kuksa_client = Client

\* C34 as stated: with idle > max_rpm the estimate equals idle.
C34_Original ==
    (calc.done /\ calc.idle > calc.max) => 2 * calc.out = calc.idle

\* C34: with idle > max_rpm the estimate is idle rounded to the nearest
\* integer (the even one on a tie) for every speed and every max_speed;
\* it equals idle when idle is an integer.
C34_InvertedGivesRoundedIdle ==
    (calc.done /\ calc.idle > calc.max) =>
        /\ calc.out \in Nearest(calc.idle, 2)
        /\ calc.idle % 2 = 1 => calc.out % 2 = 0
        /\ calc.idle % 2 = 0 => 2 * calc.out = calc.idle

C34_Witness ==
    /\ calc.done
    /\ calc.idle = 10000 /\ calc.max = 1600 /\ calc.m = 1600
    /\ calc.s = 800
    /\ calc.out = 5000

\* C35: with an explicit id and a role label both configured, the actor of
\* that id is selected and the label plays no part, also when another
\* vehicle carries the label.
C35_IdBeforeRole ==
    (calc.done /\ calc.id # NoId /\ calc.role # NoRole) =>
        /\ calc.out = Select(calc.sc, calc.id, NoRole)
        /\ calc.id \in calc.sc => calc.out = calc.id

C35_Witness ==
    /\ calc.done
    /\ calc.id = 1 /\ calc.role = "hero"
    /\ {1, 2} \subseteq calc.sc
    /\ calc.out = 1

(* ------------------ _estimate_rpm on two speeds ------------------------ *)
\* the second speed is at most this many steps of 0.1 km/h above the first
MaxGap == 12

\* two speeds and a configuration of the estimator
MonotoneInit ==
    /\ Parked
    /\ calc \in [fn : {"monotone"}, s : EstSpeeds, s2 : EstSpeeds,
                 idle : EstIdle, max : EstMax, m : EstMaxSpeed,
                 done : {FALSE}, out : {0}, out2 : {0}]
    /\ calc.s < calc.s2 /\ calc.s2 <= calc.s + MaxGap

\* _estimate_rpm is run on each of the two speeds
ApplyMonotone ==
    /\ calc.fn = "monotone" /\ ~calc.done
    /\ \E r \in EstimateRpm(calc.s, calc.idle, calc.max, calc.m),
          r2 \in EstimateRpm(calc.s2, calc.idle, calc.max, calc.m) :
            calc' = [calc EXCEPT !.done = TRUE, !.out = r, !.out2 = r2]
    /\ UNCHANGED bridge_vars

MonotoneSpec == MonotoneInit /\ [][ApplyMonotone]_vars

\* C36: for idle <= max_rpm and max_speed > 0 a higher speed never gives a
\* lower estimate.
C36_RpmMonotone ==
    (calc.done /\ calc.idle <= calc.max /\ calc.m > 0) =>
        calc.out <= calc.out2

C36_Witness ==
    /\ calc.done /\ DefaultEst
    /\ calc.s = 800 /\ calc.s2 = 804
    /\ calc.out = 2900 /\ calc.out2 > 2900

====
